---- MODULE Spec2Model ----
(***************************************************************************)
(* Supervisor PIN authentication of the CWS safety case service            *)
(* (src/server.js, "AUTHENTICATION SYSTEM" and "AUTHENTICATION ENDPOINTS").*)
(* The state is the in-memory token map, the clock read through Date.now(),*)
(* the two values derived from the environment at start-up, and the        *)
(* per-address counters of the verify-pin rate limiter.  Strings that the  *)
(* code inspects character by character (the PIN, the environment value of *)
(* TOKEN_EXPIRY_MS) are sequences of one-character strings.                *)
(* Further specifications cover a restart of the process, its SIGTERM      *)
(* handler, failing crypto primitives, and the AgentManager of             *)
(* src/unnamed/part_004, which shares only the clock with the rest.        *)
(***************************************************************************)
EXTENDS Integers, Sequences, FiniteSets, TLC

VARIABLES
    activeTokens,        \* server.js:137  Map token -> {createdAt, expiresAt, ip}
    TOKEN_EXPIRY_MS,     \* server.js:138
    SUPERVISOR_PIN_HASH, \* server.js:139
    now,                 \* the value Date.now() returns
    hits,                \* authLimiter's store: address -> [count, resetTime]
    last,                \* the most recent step and the response it produced
    secretPin,           \* history: the PIN the operator configured
    issued,              \* history: token -> expiresAt returned by verify-pin
    revoked,             \* history: tokens logout has been called with
    reached,             \* history: address -> verify-pin requests that got
                         \*          past the limiter in its current window
    unswept,             \* history: the token map as the same requests leave
                         \*          it when the cleanup timer never fires
    expiryEnv,           \* history: process.env.TOKEN_EXPIRY_MS at start-up
    lost,                \* history: tokens issued before the last restart
    process,             \* the Node process: running or exited, and how
    agentObjs,           \* part_004: the PropertyAgent objects created so far
    activeAgents         \* part_004: AgentManager.activeAgents, agentId -> object

\* what the authentication requests, the cleanup timer and the clock leave alone
outside == <<expiryEnv, lost, process, agentObjs, activeAgents>>

vars == <<activeTokens, TOKEN_EXPIRY_MS, SUPERVISOR_PIN_HASH, now, hits, last,
          secretPin, issued, revoked, reached, unswept, outside>>

---------------------------------------------------------------------------
(* Bounds of the model *)

\* the clock is observed in the first MaxMillis milliseconds of a period of
\* AUTH_WINDOW_MS and of the period after it
MaxMillis == 1
\* verify-pin requests one address sends inside one limiter window
MaxAttempts == 1
\* the same, where the limiter is driven past its quota
MaxBurst == 6
\* PropertyAgent objects created in one run of the agent manager
MaxAgents == 3

(* Program constants *)

DEFAULT_TOKEN_EXPIRY_MS == 28800000
AUTH_WINDOW_MS == 900000
AUTH_MAX == 5

\* the clock values at which the system is observed
Times == {w * AUTH_WINDOW_MS + m : w \in {0, 1}, m \in 0..MaxMillis}

---------------------------------------------------------------------------
(* Values *)

\* the values generateToken returns (64 random hex characters in the code), in
\* the order it returns them: a value is never returned twice
TokenSeq == <<"t1", "t2">>
Tokens == {TokenSeq[i] : i \in 1..Len(TokenSeq)}
\* a request field that is not there (undefined in the code)
NoToken == "<undefined>"
\* a token value no generateToken call returns
Bogus == "bogus"
\* what a client can put in a token field: a token some verify-pin response
\* carried, a value that was never issued, the empty string, or nothing (a
\* client cannot name a token before it is generated)
TokenInputs(known) == known \cup {Bogus, "", NoToken}
\* req.ip
Addrs == {"ip1", "ip2"}
\* the address that sends verify-pin requests in Spec, and the one that keeps
\* sending past the quota in SpecBurst
BurstAddr == "ip1"
\* an environment variable that is not set
Unset == <<"<unset>">>
NoTime == -1

Digits == <<"0", "1", "2", "3", "4", "5", "6", "7", "8", "9">>

IsDigit(c) == \E i \in 1..Len(Digits) : Digits[i] = c

DigitVal(c) == (CHOOSE i \in 1..Len(Digits) : Digits[i] = c) - 1

\* JavaScript truthiness of a token field: undefined and "" are falsy
Truthy(v) == v # NoToken /\ v # ""

\* request body values for `pin`
StrPin(cs) == [type |-> "string", chars |-> cs]
NumPin == [type |-> "number", chars |-> <<>>]
UndefPin == [type |-> "undefined", chars |-> <<>>]

\* JavaScript truthiness of a pin: undefined and "" are falsy, a non-zero
\* number and a non-empty string are truthy
PinTruthy(pin) ==
    \/ pin.type = "number"
    \/ pin.type = "string" /\ Len(pin.chars) > 0

PinInputs ==
    { StrPin(<<"4", "6", "9", "8">>),
      StrPin(<<"0", "0", "0", "0">>),
      StrPin(<<"1", "2", "a", "4">>),
      StrPin(<<"4", "6", "9">>),
      NumPin,
      UndefPin }

---------------------------------------------------------------------------
(* Start-up configuration, server.js:138-145 *)

\* parseInt(s): optional sign, then the longest prefix of decimal digits;
\* NaN when there is no digit (also for undefined)
RECURSIVE DigitPrefix(_, _)
DigitPrefix(cs, acc) ==
    IF cs = <<>> \/ ~IsDigit(Head(cs)) THEN acc
    ELSE DigitPrefix(Tail(cs), acc * 10 + DigitVal(Head(cs)))

ParseInt(s) ==
    LET neg  == s # <<>> /\ Head(s) = "-"
        body == IF s # <<>> /\ Head(s) \in {"-", "+"} THEN Tail(s) ELSE s
    IN  IF s = Unset \/ body = <<>> \/ ~IsDigit(Head(body))
        THEN [nan |-> TRUE, val |-> 0]
        ELSE [nan |-> FALSE,
              val |-> IF neg THEN 0 - DigitPrefix(body, 0) ELSE DigitPrefix(body, 0)]

\* parseInt(process.env.TOKEN_EXPIRY_MS) || 8 * 60 * 60 * 1000
TokenExpiryFromEnv(s) ==
    LET p == ParseInt(s)
    IN  IF p.nan \/ p.val = 0 THEN DEFAULT_TOKEN_EXPIRY_MS ELSE p.val

\* process.env.PIN_SALT || 'cws-safety-2024'
PIN_SALT == <<"c", "w", "s", "-", "s", "a", "f", "e", "t", "y", "-", "2", "0", "2", "4">>

\* (a variant that hashes the salt alone)
hashPin_SaltOnly(cs) == [sha256 |-> PIN_SALT]

\* SHA-256 of pin + salt, as an ideal hash: two digests are equal exactly
\* when the hashed strings are equal
hashPin(cs) == [sha256 |-> cs \o PIN_SALT]

DefaultPin == <<"4", "6", "9", "8">>

\* process.env.SUPERVISOR_PIN_HASH || hashPin('4698'); e.set tells whether the
\* variable is set
PinHashFromEnv(e) ==
    IF e.set THEN e.value ELSE hashPin(DefaultPin)

\* environments the server is started in
EnvTokenExpiry == {Unset, <<"1">>}
\* (pin: the PIN whose digest the operator put in SUPERVISOR_PIN_HASH, or the
\* default PIN when the variable is not set)
EnvPinHash ==
    { [set |-> FALSE, value |-> hashPin(<<>>), pin |-> DefaultPin],
      [set |-> TRUE, value |-> hashPin(<<"0", "0", "0", "0">>),
       pin |-> <<"0", "0", "0", "0">>] }

---------------------------------------------------------------------------
(* The token store, server.js:147-173 *)

\* (a variant that empties the map, as activeTokens.clear() would)
Remove_Clear(store, token) == [t \in {} |-> store[t]]

Remove(store, token) == [t \in (DOMAIN store) \ {token} |-> store[t]]

\* (a variant that starts a new map holding only the new entry)
Put_Replace(store, token, data) == [t \in {token} |-> data]

Put(store, token, data) ==
    [t \in (DOMAIN store) \cup {token} |-> IF t = token THEN data ELSE store[t]]

\* (a variant that also expires a session at the instant expiresAt)
Expired_AtExpiresAt(t, data) == t >= data.expiresAt

\* Date.now() > tokenData.expiresAt
Expired(t, data) == t > data.expiresAt

\* (a variant with sliding expiry: a successful validation pushes expiresAt on)
validateToken_Sliding(store, token, t) ==
    IF ~Truthy(token) \/ token \notin DOMAIN store
    THEN [ret |-> FALSE, store |-> store]
    ELSE IF Expired(t, store[token])
         THEN [ret |-> FALSE, store |-> Remove(store, token)]
         ELSE [ret |-> TRUE,
               store |-> Put(store, token, [store[token] EXCEPT !.expiresAt = @ + 1])]

\* (a variant that rejects an expired token once and renews its entry)
validateToken_RenewsExpired(store, token, t) ==
    IF ~Truthy(token) \/ token \notin DOMAIN store
    THEN [ret |-> FALSE, store |-> store]
    ELSE IF Expired(t, store[token])
         THEN [ret |-> FALSE,
               store |-> Put(store, token, [store[token] EXCEPT !.expiresAt = t])]
         ELSE [ret |-> TRUE, store |-> store]

\* (a variant that rejects an expired token and leaves its entry to the timer)
validateToken_KeepsExpired(store, token, t) ==
    IF ~Truthy(token) \/ token \notin DOMAIN store
    THEN [ret |-> FALSE, store |-> store]
    ELSE IF Expired(t, store[token])
         THEN [ret |-> FALSE, store |-> store]
         ELSE [ret |-> TRUE, store |-> store]

\* validateToken(token) at clock value t: the value returned and the map
\* it leaves behind
validateToken(store, token, t) ==
    IF ~Truthy(token) \/ token \notin DOMAIN store
    THEN [ret |-> FALSE, store |-> store]
    ELSE IF Expired(t, store[token])
         THEN [ret |-> FALSE, store |-> Remove(store, token)]
         ELSE [ret |-> TRUE, store |-> store]

\* (a variant that ages sessions from createdAt)
SweepStore_ByCreatedAt(store, t) ==
    [tok \in {k \in DOMAIN store : ~(t > store[k].createdAt)} |-> store[tok]]

\* (a variant whose callback deletes nothing)
SweepStore_Nothing(store, t) == store

\* (a variant that also removes a session at the instant expiresAt)
SweepStore_AtExpiresAt(store, t) ==
    [tok \in {k \in DOMAIN store : ~(t >= store[k].expiresAt)} |-> store[tok]]

\* the body of the setInterval callback at clock value t
SweepStore(store, t) ==
    [tok \in {k \in DOMAIN store : ~Expired(t, store[k])} |-> store[tok]]

---------------------------------------------------------------------------
(* Responses *)

\* op, addr, pin, token: the request (token is the token value the code looked
\* at);
\* status, success, text: the HTTP status and the JSON body's success flag and
\* error or message string; rtoken, expiresAt, remainingMs, valid: the other
\* fields of the body; hashed: hashPin was called; validated: the number of
\* validateToken calls; handler: the route handler that ran after the
\* middleware; fault: the primitive that fails while the request is served
Response(op, addr, token, status, success, text) ==
    [op |-> op, addr |-> addr, pin |-> UndefPin, fault |-> "none", token |-> token,
     status |-> status,
     success |-> success, text |-> text, rtoken |-> NoToken,
     expiresAt |-> NoTime, remainingMs |-> NoTime, valid |-> FALSE,
     hashed |-> FALSE, validated |-> 0, handler |-> "none"]

Idle == Response("idle", "none", NoToken, 0, FALSE, "")

---------------------------------------------------------------------------
(* authLimiter, server.js:268-274: a fixed window per address *)

\* the counter of an address after one more request at clock value t
LimiterHit(h, t) ==
    IF h.count = 0 \/ t >= h.resetTime
    THEN [count |-> 1, resetTime |-> t + AUTH_WINDOW_MS]
    ELSE [count |-> h.count + 1, resetTime |-> h.resetTime]

\* (a variant that lets one more request through)
LimiterBlocks_OneMore(h) == h.count > AUTH_MAX + 1

\* the request is answered 429 by the limiter
LimiterBlocks(h) == h.count > AUTH_MAX

TooManyAttempts == "Too many authentication attempts. Please try again in 15 minutes."

---------------------------------------------------------------------------
(* POST /api/auth/verify-pin, server.js:277-325 *)

\* the negation of  !pin || typeof pin !== 'string' || pin.length !== 4
PinFormatOk(pin) ==
    PinTruthy(pin) /\ pin.type = "string" /\ Len(pin.chars) = 4

\* providedPinHash === SUPERVISOR_PIN_HASH
PinMatches(pin, pinHash) == hashPin(pin.chars) = pinHash

\* generateToken(), called after n earlier calls
generateToken(n) == TokenSeq[n + 1]

\* (a variant that computes expiresAt from the second clock reading)
NewSession_FromSecondReading(t1, t2, ttl, ip) ==
    [createdAt |-> t2, expiresAt |-> t2 + ttl, ip |-> ip]

\* the entry stored for a token: expiresAt from the first clock reading t1,
\* createdAt from the second one t2
NewSession(t1, t2, ttl, ip) ==
    [createdAt |-> t2, expiresAt |-> t1 + ttl, ip |-> ip]

PinResponse(a, pin, status, success, text) ==
    [Response("verify-pin", a, NoToken, status, success, text) EXCEPT !.pin = pin]

\* the primitives of the crypto module that can throw
Faults == {"hash", "random"}

\* (a variant that swallows the failure and carries on with a fallback)
Thrown_Swallowed(pin, pinHash, fault) == "none"

\* what is thrown inside the try block for a well-formed pin: "hash" when
\* crypto.createHash fails in hashPin, "random" when crypto.randomBytes fails
\* in generateToken (reached only after the digests matched), else "none"
Thrown(pin, pinHash, fault) ==
    IF fault = "hash" THEN "hash"
    ELSE IF fault = "random" /\ PinMatches(pin, pinHash) THEN "random"
    ELSE "none"

\* history: token -> value, one more token noted
Noted(h, token, v) ==
    [t \in (DOMAIN h) \cup {token} |-> IF t = token THEN v ELSE h[t]]

\* a request from address a with body {pin}; tick: the millisecond counter
\* advances between the two Date.now() calls of the success branch; fault: the
\* primitive that fails during this request, or "none"
VerifyPinWith(a, pin, tick, fault) ==
    LET h  == LimiterHit(hits[a], now)
        t2 == IF tick THEN now + 1 ELSE now
    IN  /\ hits' = [hits EXCEPT ![a] = h]
        /\ UNCHANGED <<TOKEN_EXPIRY_MS, SUPERVISOR_PIN_HASH, secretPin, outside, revoked>>
        /\ IF LimiterBlocks(h)
           THEN /\ last' = [PinResponse(a, pin, 429, FALSE, TooManyAttempts)
                              EXCEPT !.fault = fault]
                /\ UNCHANGED <<activeTokens, unswept, now, issued, reached>>
           ELSE /\ reached' = [reached EXCEPT
                                 ![a] = IF h.resetTime # hits[a].resetTime THEN 1 ELSE @ + 1]
                /\ IF ~PinFormatOk(pin)
                   THEN /\ last' = [PinResponse(a, pin, 400, FALSE,
                                                "Invalid PIN format. PIN must be 4 digits.")
                                      EXCEPT !.fault = fault]
                        /\ UNCHANGED <<activeTokens, unswept, now, issued>>
                   ELSE IF Thrown(pin, SUPERVISOR_PIN_HASH, fault) # "none"
                        THEN /\ last' = [PinResponse(a, pin, 500, FALSE,
                                                     "Authentication service error")
                                           EXCEPT !.fault = fault,
                                                  !.hashed = (fault # "hash")]
                             /\ UNCHANGED <<activeTokens, unswept, now, issued>>
                   ELSE IF PinMatches(pin, SUPERVISOR_PIN_HASH)
                        THEN /\ t2 \in Times
                             /\ Cardinality(DOMAIN issued) < Len(TokenSeq)
                             /\ LET token == generateToken(Cardinality(DOMAIN issued))
                                    s     == NewSession(now, t2, TOKEN_EXPIRY_MS, a)
                                IN  /\ activeTokens' = Put(activeTokens, token, s)
                                    /\ unswept' = Put(unswept, token, s)
                                    /\ issued' = Noted(issued, token, s.expiresAt)
                                    /\ last' = [PinResponse(a, pin, 200, TRUE, "")
                                                  EXCEPT !.fault = fault,
                                                         !.rtoken = token,
                                                         !.expiresAt = s.expiresAt,
                                                         !.hashed = TRUE]
                             /\ now' = t2
                        ELSE /\ last' = [PinResponse(a, pin, 401, FALSE, "Invalid PIN")
                                           EXCEPT !.fault = fault, !.hashed = TRUE]
                             /\ UNCHANGED <<activeTokens, unswept, now, issued>>

\* the same request when no primitive fails
VerifyPin(a, pin, tick) == VerifyPinWith(a, pin, tick, "none")

---------------------------------------------------------------------------
(* POST /api/auth/validate-token, server.js:328-365 *)

\* a request with body {token: tok}; tick: the millisecond counter advances
\* between validateToken's Date.now() and the one of remainingMs
\* (a variant that refuses a token that does not validate, as requireAuth does)
InvalidTokenAnswer_Unauthorized(tok) ==
    [Response("validate-token", "none", tok, 401, FALSE, "Invalid or expired token")
       EXCEPT !.validated = 1]

\* the answer for a token validateToken returned false for
InvalidTokenAnswer(tok) ==
    [Response("validate-token", "none", tok, 200, TRUE, "Token expired or invalid")
       EXCEPT !.validated = 1]

\* (a variant in which the cleanup timer runs, a millisecond later, between
\* the validateToken call and the lookup)
LookupStore_AfterSweep(store, t) == SweepStore(store, t + 1)

\* the map activeTokens.get(token) at line 345 reads, store being the map
\* validateToken left at line 340 and t the clock: the handler is synchronous,
\* no callback and no other request runs between the two lines
LookupStore(store, t) == store

\* tokenData.expiresAt throws a TypeError when the lookup finds no entry; the
\* catch block answers 500 'Validation service error'
ValidateTokenEndpoint(tok, tick) ==
    LET v  == validateToken(activeTokens, tok, now)
        seen == LookupStore(v.store, now)
        t2 == IF tick THEN now + 1 ELSE now
    IN  /\ UNCHANGED <<TOKEN_EXPIRY_MS, SUPERVISOR_PIN_HASH, secretPin, outside, hits, issued, revoked, reached>>
        /\ IF ~Truthy(tok)
           THEN /\ last' = Response("validate-token", "none", tok, 400, FALSE, "Token required")
                /\ UNCHANGED <<activeTokens, unswept, now>>
           ELSE IF v.ret
                THEN /\ t2 \in Times
                     /\ last' = IF tok \in DOMAIN seen
                                THEN [Response("validate-token", "none", tok, 200, TRUE, "")
                                        EXCEPT !.valid = TRUE,
                                               !.validated = 1,
                                               !.expiresAt = seen[tok].expiresAt,
                                               !.remainingMs = seen[tok].expiresAt - t2]
                                ELSE [Response("validate-token", "none", tok, 500, FALSE,
                                               "Validation service error")
                                        EXCEPT !.validated = 1]
                     /\ activeTokens' = seen
                     /\ unswept' = validateToken(unswept, tok, now).store
                     /\ now' = t2
                ELSE /\ last' = InvalidTokenAnswer(tok)
                     /\ activeTokens' = v.store
                     /\ unswept' = validateToken(unswept, tok, now).store
                     /\ UNCHANGED now

---------------------------------------------------------------------------
(* POST /api/auth/logout, server.js:368-388 *)

\* the map after  if (token && activeTokens.has(token)) activeTokens.delete(token)
LogoutStore(store, tok) ==
    IF Truthy(tok) /\ tok \in DOMAIN store THEN Remove(store, tok) ELSE store

\* (a variant that answers 404 when there was nothing to delete)
LogoutResponse_NotFound(store, tok) ==
    IF Truthy(tok) /\ tok \in DOMAIN store
    THEN Response("logout", "none", tok, 200, TRUE, "Logged out successfully")
    ELSE Response("logout", "none", tok, 404, FALSE, "Unknown token")

\* (a variant whose message tells whether a session was ended)
LogoutResponse_Telling(store, tok) ==
    Response("logout", "none", tok, 200, TRUE,
             IF Truthy(tok) /\ tok \in DOMAIN store
             THEN "Logged out successfully" ELSE "No active session")

\* the response of the handler, the map being store when the request arrives
LogoutResponse(store, tok) ==
    Response("logout", "none", tok, 200, TRUE, "Logged out successfully")

\* (a variant that answers without deleting the entry)
Logout_KeepsEntry(tok) ==
    /\ revoked' = revoked \cup ({tok} \cap DOMAIN issued)
    /\ last' = Response("logout", "none", tok, 200, TRUE, "Logged out successfully")
    /\ UNCHANGED <<activeTokens, TOKEN_EXPIRY_MS, SUPERVISOR_PIN_HASH, secretPin, outside, now, hits,
                   issued, reached, unswept>>

Logout(tok) ==
    /\ activeTokens' = LogoutStore(activeTokens, tok)
    /\ unswept' = LogoutStore(unswept, tok)
    /\ revoked' = revoked \cup ({tok} \cap DOMAIN issued)
    /\ last' = LogoutResponse(activeTokens, tok)
    /\ UNCHANGED <<TOKEN_EXPIRY_MS, SUPERVISOR_PIN_HASH, secretPin, outside, now, hits, issued, reached>>

---------------------------------------------------------------------------
(* requireAuth and GET /api/cases, server.js:391-419 *)

\* req.headers['x-auth-token'] || req.body.token
RequestToken(header, bodyTok) == IF Truthy(header) THEN header ELSE bodyTok

\* (a variant that answers 403 to a token that does not validate)
requireAuth_Forbidden(token, valid) ==
    IF ~Truthy(token)
    THEN Response("cases", "none", token, 401, FALSE, "Authentication required")
    ELSE IF ~valid
         THEN [Response("cases", "none", token, 403, FALSE, "Invalid or expired token")
                 EXCEPT !.validated = 1]
         ELSE [Response("cases", "none", token, 200, TRUE, "Authenticated access to cases")
                 EXCEPT !.validated = 1, !.handler = "cases"]

\* (a variant that validates the token a second time before the handler runs)
requireAuth_ValidatesTwice(token, valid) ==
    IF ~Truthy(token)
    THEN Response("cases", "none", token, 401, FALSE, "Authentication required")
    ELSE IF ~valid
         THEN [Response("cases", "none", token, 401, FALSE, "Invalid or expired token")
                 EXCEPT !.validated = 1]
         ELSE [Response("cases", "none", token, 200, TRUE, "Authenticated access to cases")
                 EXCEPT !.validated = 2, !.handler = "cases"]

\* the response to a request that reaches requireAuth with this token, valid
\* being what validateToken returned for it; handler "cases" when requireAuth
\* called next() and the route handler answered
requireAuth(token, valid) ==
    IF ~Truthy(token)
    THEN Response("cases", "none", token, 401, FALSE, "Authentication required")
    ELSE IF ~valid
         THEN [Response("cases", "none", token, 401, FALSE, "Invalid or expired token")
                 EXCEPT !.validated = 1]
         ELSE [Response("cases", "none", token, 200, TRUE, "Authenticated access to cases")
                 EXCEPT !.validated = 1, !.handler = "cases"]

\* the routes registered for GET /api/cases, in the order of registration:
\* the stub behind requireAuth (line 412) and the database handler (line 500)
CasesRoutes ==
    << [auth |-> TRUE, handler |-> "cases"],
       [auth |-> FALSE, handler |-> "cases-db"] >>

\* the answer of a route's own handler; the database handler sends the cases
ServedBy(route, token) ==
    [Response("cases", "none", token, 200, TRUE,
              IF route.handler = "cases" THEN "Authenticated access to cases"
              ELSE "cases with expenses")
       EXCEPT !.handler = route.handler]

\* (a variant in which the route registered last is the one that serves)
Dispatch_LastRegistered(routes, token, valid) ==
    LET route == routes[Len(routes)]
    IN  IF route.auth
        THEN LET r == requireAuth(token, valid)
             IN  IF r.handler = "none" THEN r ELSE [r EXCEPT !.handler = route.handler]
        ELSE ServedBy(route, token)

\* Express runs the routes that match in the order of registration; a route
\* is left for the next one only through next(), which requireAuth calls on
\* success alone and which neither handler calls: the first route answers
Dispatch(routes, token, valid) ==
    LET route == Head(routes)
    IN  IF route.auth
        THEN LET r == requireAuth(token, valid)
             IN  IF r.handler = "none" THEN r ELSE [r EXCEPT !.handler = route.handler]
        ELSE ServedBy(route, token)

GetCases(header, bodyTok) ==
    LET token == RequestToken(header, bodyTok)
        v     == validateToken(activeTokens, token, now)
    IN  /\ last' = Dispatch(CasesRoutes, token, v.ret)
        /\ activeTokens' = v.store
        /\ unswept' = validateToken(unswept, token, now).store
        /\ UNCHANGED <<TOKEN_EXPIRY_MS, SUPERVISOR_PIN_HASH, secretPin, outside, now, hits, issued, revoked, reached>>

---------------------------------------------------------------------------
(* The cleanup timer, server.js:166-173, and the clock *)

Sweep ==
    /\ activeTokens' = SweepStore(activeTokens, now)
    /\ last' = Response("sweep", "none", NoToken, 0, FALSE, "")
    /\ UNCHANGED <<TOKEN_EXPIRY_MS, SUPERVISOR_PIN_HASH, secretPin, outside, now, hits, issued, revoked, reached,
                   unswept>>

\* time passes until clock value t
Tick(t) ==
    /\ t > now
    /\ now' = t
    /\ last' = Idle
    /\ UNCHANGED <<activeTokens, TOKEN_EXPIRY_MS, SUPERVISOR_PIN_HASH, secretPin, outside, hits, issued, revoked, reached,
                   unswept>>

---------------------------------------------------------------------------
(* The system *)

EmptyMap == [t \in {} |-> 0]

\* the process while it serves requests; exitCode is set when it ends
Running == [state |-> "running", exitCode |-> -1, serverClosed |-> FALSE]

InitEnv(expiryEnvs, pinHashEnvs) ==
    /\ activeTokens = EmptyMap
    /\ \E e \in expiryEnvs :
          /\ expiryEnv = e
          /\ TOKEN_EXPIRY_MS = TokenExpiryFromEnv(e)
    /\ \E e \in pinHashEnvs :
          /\ SUPERVISOR_PIN_HASH = PinHashFromEnv(e)
          /\ secretPin = e.pin
    /\ now = 0
    /\ hits = [a \in Addrs |-> [count |-> 0, resetTime |-> 0]]
    /\ last = Idle
    /\ issued = EmptyMap
    /\ revoked = {}
    /\ reached = [a \in Addrs |-> 0]
    /\ unswept = EmptyMap
    /\ lost = {}
    /\ process = Running
    /\ agentObjs = <<>>
    /\ activeAgents = EmptyMap

Init == InitEnv(EnvTokenExpiry, EnvPinHash)

\* the requests address a has sent in its limiter window, this one included
Attempts(a) == LimiterHit(hits[a], now).count

DoVerifyPin ==
    \E pin \in PinInputs, tick \in BOOLEAN :
        Attempts(BurstAddr) <= MaxAttempts /\ VerifyPin(BurstAddr, pin, tick)

DoValidateToken ==
    \E tok \in TokenInputs(DOMAIN issued), tick \in BOOLEAN : ValidateTokenEndpoint(tok, tick)

DoLogout == \E tok \in TokenInputs(DOMAIN issued) : Logout(tok)

DoGetCases ==
    \E header \in TokenInputs(DOMAIN issued), bodyTok \in TokenInputs(DOMAIN issued) :
        GetCases(header, bodyTok)

DoTick == \E t \in Times : Tick(t)

Next ==
    \/ DoVerifyPin
    \/ DoValidateToken
    \/ DoLogout
    \/ DoGetCases
    \/ Sweep
    \/ DoTick

Spec == Init /\ [][Next]_vars

\* verify-pin under load: one address keeps sending past the quota while the
\* others send a few requests
DoVerifyPinBurst ==
    \E a \in Addrs, pin \in PinInputs :
        /\ Attempts(a) <= (IF a = BurstAddr THEN MaxBurst ELSE MaxAttempts)
        /\ VerifyPin(a, pin, FALSE)

NextBurst ==
    \/ DoVerifyPinBurst
    \/ DoTick

InitBurst == InitEnv({Unset}, EnvPinHash)

SpecBurst == InitBurst /\ [][NextBurst]_vars

\* the server kept running: setInterval(..., 60000) keeps calling the cleanup
\* callback, so a callback that has something to delete is not postponed for
\* ever, and time does not stop while a later instant is left
Fairness == WF_vars(Sweep) /\ WF_vars(DoTick)

\* the steps that touch the token map: the protected route is left out, it
\* acts on the map through validateToken alone, as validate-token does
NextLive ==
    \/ DoVerifyPin
    \/ DoValidateToken
    \/ DoLogout
    \/ Sweep
    \/ DoTick

SpecLive == Init /\ [][NextLive]_vars /\ Fairness

\* verify-pin while the crypto primitives may fail: one address sends
\* requests, past its quota too, and each request meets no failure, a failing
\* createHash or a failing randomBytes
DoVerifyPinFault ==
    \E pin \in PinInputs, fault \in Faults \cup {"none"} :
        /\ Attempts(BurstAddr) <= MaxBurst
        /\ VerifyPinWith(BurstAddr, pin, FALSE, fault)

NextFault ==
    \/ DoVerifyPinFault
    \/ DoTick

SpecFault == InitBurst /\ [][NextFault]_vars

\* (a variant whose token map survives the restart, as a persisted one would)
StoreAtStart_Persisted(old) == old

\* const activeTokens = new Map(): the map a starting process begins with,
\* old being the map of the process before it
StoreAtStart(old) == EmptyMap

\* the process is stopped and started again in the same environment: the
\* module-level code runs anew, the limiter's memory store is new as well
Restart ==
    /\ activeTokens' = StoreAtStart(activeTokens)
    /\ unswept' = StoreAtStart(unswept)
    /\ hits' = [a \in Addrs |-> [count |-> 0, resetTime |-> 0]]
    /\ reached' = [a \in Addrs |-> 0]
    /\ lost' = DOMAIN issued
    /\ last' = Response("restart", "none", NoToken, 0, FALSE, "")
    /\ UNCHANGED <<TOKEN_EXPIRY_MS, SUPERVISOR_PIN_HASH, secretPin, now, issued, revoked,
                   expiryEnv, process, agentObjs, activeAgents>>

\* requests to the protected route that carry the token in the x-auth-token
\* header and none in the body
DoGetCasesByHeader ==
    \E header \in TokenInputs(DOMAIN issued) : GetCases(header, NoToken)

NextRestart ==
    \/ DoVerifyPin
    \/ DoValidateToken
    \/ DoLogout
    \/ DoGetCasesByHeader
    \/ Sweep
    \/ DoTick
    \/ Restart

SpecRestart == Init /\ [][NextRestart]_vars

\* the binding the SIGTERM handler reads as 'server': app.listen(PORT, ...) at
\* line 1105 is a bare statement, its return value is bound to no name
ServerBinding == "not defined"

\* the process gets SIGTERM: the handler logs and evaluates server.close(...).
\* With no binding the evaluation throws a ReferenceError that nothing
\* catches, and Node ends the process with exit code 1; with the http.Server
\* bound, close() would run its callback and the callback process.exit(0)
Sigterm ==
    /\ process.state = "running"
    /\ process' = IF ServerBinding = "not defined"
                  THEN [state |-> "exited", exitCode |-> 1, serverClosed |-> FALSE]
                  ELSE [state |-> "exited", exitCode |-> 0, serverClosed |-> TRUE]
    /\ last' = Response("sigterm", "none", NoToken, 0, FALSE, "")
    /\ UNCHANGED <<activeTokens, TOKEN_EXPIRY_MS, SUPERVISOR_PIN_HASH, secretPin, now, hits,
                   issued, revoked, reached, unswept, expiryEnv, lost, agentObjs,
                   activeAgents>>

\* requests, timer and clock while the process runs; nothing after it ended
NextSignal ==
    \/ process.state = "running" /\ DoVerifyPin
    \/ process.state = "running" /\ DoValidateToken
    \/ process.state = "running" /\ Sweep
    \/ process.state = "running" /\ DoTick
    \/ Sigterm

SpecSignal == Init /\ [][NextSignal]_vars

---------------------------------------------------------------------------
(* AgentManager and PropertyAgent, src/unnamed/part_004 *)

\* two of the keys of this.agentTypes, and a type that is not a key
AgentTypes == {"rent_collector", "emergency_responder"}
UnknownType == "no_such_agent"

\* `${agentType}_${Date.now()}`
AgentId(type, t) == <<type, t>>

\* a PropertyAgent after the constructor, initialize() and start(): status
\* 'running', intervalId the handle of its setInterval timer (TRUE: a timer
\* that fires, FALSE: null)
StartedAgent(agentId, type) ==
    [agentId |-> agentId, type |-> type, status |-> "running", intervalId |-> TRUE]

\* PropertyAgent.stop(): status 'stopped', the timer cleared
StoppedAgent(agent) ==
    [agent EXCEPT !.status = "stopped", !.intervalId = FALSE]

\* AgentManager.deployAgent(agentType), the caller awaiting its result
deployAgent(type) ==
    /\ Len(agentObjs) < MaxAgents
    /\ IF type \notin AgentTypes
       THEN /\ last' = Response("deployAgent", "none", NoToken, 0, FALSE,
                                 "Unknown agent type")
            /\ UNCHANGED <<agentObjs, activeAgents>>
       ELSE LET agentId == AgentId(type, now)
                obj     == Len(agentObjs) + 1
            IN  /\ agentObjs' = Append(agentObjs, StartedAgent(agentId, type))
                /\ activeAgents' = Put(activeAgents, agentId, obj)
                /\ last' = Response("deployAgent", "none", NoToken, 0, TRUE, "deployed")
    /\ UNCHANGED <<activeTokens, TOKEN_EXPIRY_MS, SUPERVISOR_PIN_HASH, secretPin, now, hits,
                   issued, revoked, reached, unswept, expiryEnv, lost, process>>

\* AgentManager.stopAgent(agentId)
stopAgent(agentId) ==
    /\ IF agentId \in DOMAIN activeAgents
       THEN /\ agentObjs' = [agentObjs EXCEPT
                               ![activeAgents[agentId]] = StoppedAgent(@)]
            /\ activeAgents' = Remove(activeAgents, agentId)
            /\ last' = Response("stopAgent", "none", NoToken, 0, TRUE, "")
       ELSE /\ last' = Response("stopAgent", "none", NoToken, 0, FALSE, "")
            /\ UNCHANGED <<agentObjs, activeAgents>>
    /\ UNCHANGED <<activeTokens, TOKEN_EXPIRY_MS, SUPERVISOR_PIN_HASH, secretPin, now, hits,
                   issued, revoked, reached, unswept, expiryEnv, lost, process>>

\* AgentManager.stopAllAgents(): stop() on every entry, then clear()
stopAllAgents ==
    /\ agentObjs' = [i \in DOMAIN agentObjs |->
                        IF \E id \in DOMAIN activeAgents : activeAgents[id] = i
                        THEN StoppedAgent(agentObjs[i]) ELSE agentObjs[i]]
    /\ activeAgents' = EmptyMap
    /\ last' = Response("stopAllAgents", "none", NoToken, 0, TRUE, "")
    /\ UNCHANGED <<activeTokens, TOKEN_EXPIRY_MS, SUPERVISOR_PIN_HASH, secretPin, now, hits,
                   issued, revoked, reached, unswept, expiryEnv, lost, process>>

DoDeployAgent == \E type \in AgentTypes \cup {UnknownType} : deployAgent(type)

DoStopAgent ==
    \E type \in AgentTypes, t \in Times : t <= now /\ stopAgent(AgentId(type, t))

NextAgents ==
    \/ DoDeployAgent
    \/ DoStopAgent
    \/ stopAllAgents
    \/ DoTick

SpecAgents == Init /\ [][NextAgents]_vars

\* the server started with any value of TOKEN_EXPIRY_MS in its environment:
\* not set, a positive, a negative or a zero number, or text that is no number
EnvTokenExpiryAny ==
    EnvTokenExpiry \cup {<<"-", "5">>, <<"0">>, <<"a", "b", "c">>,
                         <<"9", "0", "0", "0", "0", "0">>}

InitAnyEnv == InitEnv(EnvTokenExpiryAny, {e \in EnvPinHash : ~e.set})

SpecEnv == InitAnyEnv /\ [][Next]_vars

---------------------------------------------------------------------------
(* Properties *)

\* a string of exactly 4 decimal digits
FourDigits(pin) ==
    /\ pin.type = "string"
    /\ Len(pin.chars) = 4
    /\ \A i \in 1..Len(pin.chars) : IsDigit(pin.chars[i])

\* the response a protected route gives to a request with these two fields
AuthOutcome(header, bodyTok) ==
    LET token == RequestToken(header, bodyTok)
    IN  requireAuth(token, validateToken(activeTokens, token, now).ret)

C2_RevokedNeverValid ==
    /\ \A t \in revoked : ~validateToken(activeTokens, t, now).ret
    /\ (last.op \in {"validate-token", "cases"} /\ last.token \in revoked)
          => (~last.valid /\ last.handler = "none")

\* a revoked token was just reported invalid before its expiresAt
C2_Witness ==
    /\ last.op = "validate-token"
    /\ last.token \in revoked
    /\ now < issued[last.token]
    /\ last.status = 200
    /\ ~last.valid

\* C3: validateToken returns false for every stored token whose expiresAt the
\* clock has reached or passed (now >= expiresAt), swept or not.
C3_ExpiredNeverValid ==
    \A t \in DOMAIN activeTokens :
        now >= activeTokens[t].expiresAt => ~validateToken(activeTokens, t, now).ret

\* C4: a token that was issued, was not revoked and whose expiresAt is still
\* ahead (now < expiresAt) is in the store, validateToken returns true for it
\* and leaves the store as it is.
C4_LiveTokenValidates ==
    \A t \in DOMAIN issued :
        (t \notin revoked /\ now < issued[t])
            => /\ t \in DOMAIN activeTokens
               /\ validateToken(activeTokens, t, now) = [ret |-> TRUE, store |-> activeTokens]

\* the sweep just ran, it has removed an expired session and a live one is
\* still there
C4_Witness ==
    /\ last.op = "sweep"
    /\ \E t \in DOMAIN issued : t \notin revoked /\ now < issued[t]
    /\ \E u \in DOMAIN issued : u \notin revoked /\ u \notin DOMAIN activeTokens

\* C5: directly after a sweep at clock value now the store holds no entry
\* with expiresAt <= now.
C5_SweepLeavesNoExpired ==
    last.op = "sweep"
        => \A t \in DOMAIN activeTokens : activeTokens[t].expiresAt > now

\* C6: a verify-pin request that the limiter lets through and whose pin is
\* not a string of exactly 4 digits is answered 400 and hashPin is not called.
C6_MalformedPinIsInvalidFormat ==
    (last.op = "verify-pin" /\ last.status # 429 /\ ~FourDigits(last.pin))
        => (last.status = 400 /\ ~last.hashed)

\* C7: a verify-pin request with a 4-digit pin that reaches the handler is
\* answered with a stored token and its expiry when the pin is the configured
\* one, and with 401 'Invalid PIN' and no token otherwise.
C7_PinDecidesOutcome ==
    (last.op = "verify-pin" /\ last.status # 429 /\ FourDigits(last.pin))
        => IF last.pin.chars = secretPin
           THEN /\ last.status = 200
                /\ last.success
                /\ last.rtoken \in DOMAIN activeTokens
                /\ last.expiresAt = activeTokens[last.rtoken].expiresAt
           ELSE /\ last.status = 401
                /\ ~last.success
                /\ last.text = "Invalid PIN"
                /\ last.rtoken = NoToken
                /\ last.expiresAt = NoTime

\* a wrong 4-digit pin was just refused by a server that has issued a token
\* for the right one
C7_Witness ==
    /\ last.op = "verify-pin"
    /\ last.status = 401
    /\ FourDigits(last.pin)
    /\ DOMAIN issued # {}

\* C8: in one limiter window at most AUTH_MAX verify-pin requests of an
\* address reach the handler; a request the limiter rejects computes no hash,
\* carries no token and leaves the token store as it was.
C8_RejectedState ==
    /\ \A a \in Addrs : reached[a] <= AUTH_MAX
    /\ (last.op = "verify-pin" /\ last.status = 429)
          => (~last.hashed /\ last.rtoken = NoToken)

C8_LimiterQuota ==
    /\ []C8_RejectedState
    /\ [][(last'.op = "verify-pin" /\ last'.status = 429)
             => activeTokens' = activeTokens]_vars

\* the limiter just rejected a request that carried the right pin, after
\* AUTH_MAX requests of that address had reached the handler
C8_Witness ==
    /\ last.op = "verify-pin"
    /\ last.status = 429
    /\ last.pin.chars = secretPin
    /\ reached[last.addr] = AUTH_MAX

\* C9: the handler of the protected route runs only for a request whose
\* token is in the store and not expired (now < expiresAt); every other
\* request is answered 401.
C9_HandlerOnlyForLiveToken ==
    last.op = "cases"
        => IF last.handler = "cases"
           THEN /\ Truthy(last.token)
                /\ last.token \in DOMAIN activeTokens
                /\ now < activeTokens[last.token].expiresAt
           ELSE last.status = 401

\* the responses the protected route gives in the current state to the
\* requests it does not let through
UnauthorizedOutcomes ==
    {r \in {AuthOutcome(h, b) : h, b \in TokenInputs(DOMAIN issued)} : r.handler = "none"}

\* C10, as claimed: all unauthorized requests to the protected route (token
\* missing, token unknown, token expired) get one and the same status and body.
C10_UniformUnauthorized ==
    Cardinality({<<r.status, r.success, r.text>> : r \in UnauthorizedOutcomes}) <= 1

\* C10, amended: all unauthorized requests get the same status 401 and success
\* flag, and those that carry a token get the same body, whether the token is
\* unknown or expired.
C10_UniformForPresentedToken ==
    /\ \A r \in UnauthorizedOutcomes : r.status = 401 /\ ~r.success
    /\ Cardinality({r.text : r \in {u \in UnauthorizedOutcomes : Truthy(u.token)}}) <= 1

\* an unknown token was just refused while an expired one sits in the store
C10_Witness ==
    /\ last.op = "cases"
    /\ last.status = 401
    /\ last.token = Bogus
    /\ \E t \in DOMAIN activeTokens : now > activeTokens[t].expiresAt

\* C11: logout answers success and never an error whatever token it is given
\* (live, expired, already revoked, never issued, empty or missing), and a
\* second logout of the same token leaves the store as the first one left it.
C11_LogoutIdempotent ==
    last.op = "logout" =>
        /\ last.status = 200
        /\ last.success
        /\ LogoutStore(activeTokens, last.token) = activeTokens
        /\ (Truthy(last.token) => last.token \notin DOMAIN activeTokens)

\* an issued token whose expiry has passed was just logged out while another
\* session is in the store
C11_Witness ==
    /\ last.op = "logout"
    /\ last.token \in DOMAIN issued
    /\ now > issued[last.token]
    /\ activeTokens # EmptyMap

\* C12: the logout response is the same whether or not the token was in the
\* store: for every token a client can send, the store with the token and the
\* store without it produce the response that was actually sent.
C12_LogoutRevealsNothing ==
    /\ \A tok \in TokenInputs(DOMAIN issued) :
           LogoutResponse(Put(activeTokens, tok, NewSession(now, now, TOKEN_EXPIRY_MS, BurstAddr)), tok)
               = LogoutResponse(Remove(activeTokens, tok), tok)
    /\ last.op = "logout" =>
           /\ last = LogoutResponse(Put(activeTokens, last.token,
                                        NewSession(now, now, TOKEN_EXPIRY_MS, BurstAddr)), last.token)
           /\ last = LogoutResponse(Remove(activeTokens, last.token), last.token)

\* a never-issued token was just logged out while a live session is in the
\* store, and an issued one has been logged out before
C12_Witness ==
    /\ last.op = "logout"
    /\ last.token = Bogus
    /\ revoked # {}
    /\ \E t \in DOMAIN activeTokens : now < activeTokens[t].expiresAt

\* the token is not a session a client may still use at clock value t: it was
\* never issued, it was revoked, its expiry has passed, or it is empty
NotLiveAt(tok, t) ==
    \/ ~Truthy(tok)
    \/ tok \notin DOMAIN issued
    \/ tok \in revoked
    \/ t > issued[tok]

\* C13, as claimed: the validate-token endpoint never answers with an error
\* status for a token that is not a live session: unknown, revoked, expired or
\* empty, the answer is a non-error response carrying valid:false.
C13_NeverErrors ==
    [][(last'.op = "validate-token" /\ NotLiveAt(last'.token, now))
          => (last'.status < 400 /\ ~last'.valid)]_vars

\* C13, amended: a non-empty token that is unknown, revoked or past its expiry
\* gets status 200 with success:true and valid:false, and every non-empty
\* token gets status 200; an empty or missing token gets status 400
\* 'Token required' with valid:false.
C13_NeverErrorsOnPresentedToken ==
    [][last'.op = "validate-token" =>
          IF Truthy(last'.token)
          THEN /\ last'.status = 200
               /\ last'.success
               /\ NotLiveAt(last'.token, now) =>
                      (~last'.valid /\ last'.text = "Token expired or invalid")
          ELSE /\ last'.status = 400
               /\ ~last'.success
               /\ ~last'.valid
               /\ last'.text = "Token required"]_vars

\* a revoked token was just presented to validate-token and answered 200 with
\* valid:false
C13_Witness ==
    /\ last.op = "validate-token"
    /\ last.token \in revoked
    /\ last.status = 200
    /\ ~last.valid

\* C14: every session in the store has expiresAt > createdAt, whatever value of
\* TOKEN_EXPIRY_MS the server was started with and whatever the two clock
\* readings taken while the session was created.
C14_ExpiresAfterCreated ==
    \A t \in DOMAIN activeTokens :
        activeTokens[t].expiresAt > activeTokens[t].createdAt

\* C15: a stored session never changes: from the step that stores it to the
\* step that deletes it, createdAt, expiresAt and ip keep their values under
\* every operation, validation never moves the expiry, and validate-token
\* reports the expiresAt that verify-pin returned when it issued the token.
C15_SessionsImmutable ==
    /\ [](/\ \A t \in DOMAIN activeTokens : activeTokens[t].expiresAt = issued[t]
          /\ (last.op = "validate-token" /\ last.valid) =>
                 last.expiresAt = issued[last.token]
          /\ (last.op = "verify-pin" /\ last.status = 200) =>
                 last.expiresAt = issued[last.rtoken])
    /\ [][\A t \in (DOMAIN activeTokens) \cap (DOMAIN activeTokens') :
              activeTokens'[t] = activeTokens[t]]_vars

\* a token was just validated successfully at a later clock value than the one
\* it was created at
C15_Witness ==
    /\ last.op = "validate-token"
    /\ last.valid
    /\ last.token \in DOMAIN activeTokens
    /\ now > activeTokens[last.token].createdAt + 1

\* what validate-token would answer for a token, the map being store
ValidateAnswer(store, tok) ==
    IF ~Truthy(tok) THEN <<400, FALSE, NoTime>>
    ELSE IF validateToken(store, tok, now).ret
         THEN <<200, TRUE, store[tok].expiresAt>>
         ELSE <<200, FALSE, NoTime>>

\* C16: the cleanup timer has no effect on validation: after the same
\* requests, the store of the run in which the timer fired at arbitrary points
\* and the store of the run in which it never fired give the same validateToken
\* result, and the same validate-token answer, for every token.
C16_SweepInvisible ==
    \A tok \in TokenInputs(DOMAIN issued) :
        /\ validateToken(activeTokens, tok, now).ret = validateToken(unswept, tok, now).ret
        /\ ValidateAnswer(activeTokens, tok) = ValidateAnswer(unswept, tok)
        /\ AuthOutcome(tok, NoToken).status
               = requireAuth(tok, validateToken(unswept, tok, now).ret).status

\* the timer has removed a session that the run without the timer still
\* holds, and a token issued later was just validated successfully
C16_Witness ==
    /\ last.op = "validate-token"
    /\ last.valid
    /\ (DOMAIN unswept) \ (DOMAIN activeTokens) # {}

\* C17: the store holds every issued token that has neither been revoked nor
\* reached its expiry, each of them valid, and no token that was never issued
\* or was revoked; a logout removes at most the token it names, the cleanup
\* timer removes only entries whose expiry has passed, and issuing a token
\* removes nothing.
C17_StoreIsExact ==
    /\ [](/\ \A t \in DOMAIN issued :
                (t \notin revoked /\ now < issued[t]) =>
                    (t \in DOMAIN activeTokens /\ validateToken(activeTokens, t, now).ret)
          /\ (DOMAIN activeTokens) \subseteq ((DOMAIN issued) \ revoked))
    /\ [][LET gone == (DOMAIN activeTokens) \ (DOMAIN activeTokens')
          IN  /\ last'.op = "logout" => gone \subseteq {last'.token}
              /\ last'.op = "sweep" =>
                     \A t \in gone : now > activeTokens[t].expiresAt
              /\ last'.op = "verify-pin" => gone = {}]_vars

\* two tokens were issued, one was revoked, and the cleanup timer has just run
\* with nothing expired: exactly the other token is in the store, and valid
C17_Witness ==
    /\ last.op = "sweep"
    /\ Cardinality(DOMAIN issued) = 2
    /\ Cardinality(revoked) = 1
    /\ \A t \in DOMAIN issued : now < issued[t]
    /\ DOMAIN activeTokens = (DOMAIN issued) \ revoked
    /\ \A t \in DOMAIN activeTokens : validateToken(activeTokens, t, now).ret

\* C18: every session whose expiresAt the clock has passed is eventually
\* removed from the store, even if nobody validates or revokes it, provided
\* the clock keeps advancing and the cleanup timer keeps firing.
C18_ExpiredEventuallyRemoved ==
    \A t \in Tokens :
        (t \in DOMAIN activeTokens /\ now > activeTokens[t].expiresAt)
            ~> (t \notin DOMAIN activeTokens)

\* the timer has just removed an expired session that nobody had validated or
\* revoked since it expired: the run without the timer still holds it
C18_Witness ==
    /\ last.op = "sweep"
    /\ \E t \in (DOMAIN unswept) \ (DOMAIN activeTokens) :
           t \notin revoked /\ now > issued[t]

\* the failure injected into the last request was met: the pin was well
\* formed, so hashPin ran, and either createHash failed or the digests matched
\* and randomBytes failed
FaultMet(r) ==
    /\ r.op = "verify-pin"
    /\ r.status # 429
    /\ PinFormatOk(r.pin)
    /\ \/ r.fault = "hash"
       \/ r.fault = "random" /\ r.pin.chars = secretPin

\* C19: verify-pin adds exactly one entry to the store when the PIN matches,
\* the request is within the quota and nothing fails, and it leaves the store
\* as it was in every failing outcome (bad format, wrong PIN, rate-limited,
\* internal error); no response reports an error while a token was stored.
C19_VerifyPinFrame ==
    [][last'.op = "verify-pin" =>
          IF last'.status = 200
          THEN /\ last'.pin.chars = secretPin
               /\ last'.rtoken \notin DOMAIN activeTokens
               /\ DOMAIN activeTokens' = (DOMAIN activeTokens) \cup {last'.rtoken}
               /\ \A t \in DOMAIN activeTokens : activeTokens'[t] = activeTokens[t]
          ELSE /\ last'.status \in {400, 401, 429, 500}
               /\ ~last'.success
               /\ last'.rtoken = NoToken
               /\ activeTokens' = activeTokens
               /\ (/\ last'.status # 429
                   /\ last'.fault = "none"
                   /\ PinFormatOk(last'.pin)) => last'.pin.chars # secretPin]_vars

\* a second session was just added to a store that held one, by an address
\* with at least two earlier requests served in this limiter window
C19_Witness ==
    /\ last.op = "verify-pin"
    /\ last.status = 200
    /\ Cardinality(DOMAIN activeTokens) = 2
    /\ reached[BurstAddr] >= 3

\* C20: when hashing the PIN or generating the random token throws during
\* verify-pin, the request ends with status 500, the response carries no
\* token and nothing is stored; there is no fallback that issues a token.
C20_FailureIsFatal ==
    /\ [](FaultMet(last) =>
             /\ last.status = 500
             /\ ~last.success
             /\ last.text = "Authentication service error"
             /\ last.rtoken = NoToken
             /\ last.expiresAt = NoTime)
    /\ [][FaultMet(last') => (activeTokens' = activeTokens /\ issued' = issued)]_vars

\* randomBytes just failed for a request with the right PIN, while the store
\* holds a session issued earlier
C20_Witness ==
    /\ FaultMet(last)
    /\ last.fault = "random"
    /\ last.status = 500
    /\ activeTokens # EmptyMap

\* C21: after a restart the token store is empty, and every token issued
\* before the restart is absent from the store and validates as false from
\* then on, whatever its expiresAt.
C21_RestartDropsSessions ==
    /\ last.op = "restart" => activeTokens = EmptyMap
    /\ \A t \in lost :
           /\ t \notin DOMAIN activeTokens
           /\ ~validateToken(activeTokens, t, now).ret
    /\ (last.op \in {"validate-token", "cases"} /\ last.token \in lost) =>
           (~last.valid /\ last.handler = "none")

\* a token issued before the restart, not revoked and not yet expired, was
\* just presented to validate-token and answered valid:false
C21_Witness ==
    /\ last.op = "validate-token"
    /\ last.token \in lost
    /\ last.token \notin revoked
    /\ now < issued[last.token]
    /\ ~last.valid

\* TOKEN_EXPIRY_MS is set in the environment to text that is a number
ConfiguredNumber(e) == e # Unset /\ ~ParseInt(e).nan

\* C22, as claimed: a successful verify-pin at clock value now returns and
\* stores expiresAt = now + TTL, TTL being the configured number of
\* milliseconds for every configured value and 8 hours when none is configured.
C22_ExpiryIsNowPlusTtl ==
    [][(last'.op = "verify-pin" /\ last'.status = 200) =>
          LET ttl == IF expiryEnv = Unset THEN DEFAULT_TOKEN_EXPIRY_MS
                     ELSE ParseInt(expiryEnv).val
          IN  (expiryEnv = Unset \/ ConfiguredNumber(expiryEnv)) =>
                  /\ last'.expiresAt = now + ttl
                  /\ activeTokens'[last'.rtoken].expiresAt = now + ttl]_vars

\* C22, amended: expiresAt = now + TTL, TTL being the configured number when
\* it is a non-zero integer, and 8 hours when TOKEN_EXPIRY_MS is not set, is
\* zero or is not a number; now is the first clock reading of the handler.
C22_ExpiryIsNowPlusNonZeroTtl ==
    [][(last'.op = "verify-pin" /\ last'.status = 200) =>
          LET ttl == IF ConfiguredNumber(expiryEnv) /\ ParseInt(expiryEnv).val # 0
                     THEN ParseInt(expiryEnv).val
                     ELSE DEFAULT_TOKEN_EXPIRY_MS
          IN  /\ last'.expiresAt = now + ttl
              /\ activeTokens'[last'.rtoken].expiresAt = now + ttl]_vars

\* a server configured with TOKEN_EXPIRY_MS=0 has just issued a token, the
\* clock having advanced inside the handler
C22_Witness ==
    /\ last.op = "verify-pin"
    /\ last.status = 200
    /\ expiryEnv = <<"0">>
    /\ activeTokens[last.rtoken].createdAt + DEFAULT_TOKEN_EXPIRY_MS > last.expiresAt

\* C23: when validateToken finds a token in the store but expired, it deletes
\* that entry, and only that entry, in the same call: directly after a call
\* that returned false for a token that was in the store, the token is no
\* longer in the store; a call that returns true deletes nothing.
C23_ExpiredDeletedOnValidate ==
    /\ \A tok \in TokenInputs(DOMAIN issued) :
           LET v == validateToken(activeTokens, tok, now)
           IN  /\ (~v.ret /\ tok \in DOMAIN activeTokens) =>
                      (tok \notin DOMAIN v.store /\ v.store = Remove(activeTokens, tok))
               /\ (v.ret \/ tok \notin DOMAIN activeTokens) => v.store = activeTokens
    /\ (/\ last.op \in {"validate-token", "cases"}
        /\ last.validated = 1
        /\ ~last.valid
        /\ last.handler = "none") => last.token \notin DOMAIN activeTokens

\* validate-token has just answered valid:false for an issued token that was
\* never revoked and whose expiry has passed, and the entry is gone also where
\* the timer never runs: a validateToken call deleted it
C23_Witness ==
    /\ last.op = "validate-token"
    /\ ~last.valid
    /\ last.token \in (DOMAIN issued) \ revoked
    /\ now > issued[last.token]
    /\ last.token \notin DOMAIN unswept

\* C24, as claimed: every request to a protected route calls validateToken
\* exactly once, whether the token is missing, unknown, expired or live.
C24_ValidatesOncePerRequest ==
    last.op = "cases" => last.validated = 1

\* C24, amended: a request to a protected route that carries a token calls
\* validateToken exactly once, whether the token is unknown, expired or live;
\* a request without a token is answered 401 with no call at all.
C24_ValidatesOncePerPresentedToken ==
    last.op = "cases" =>
        IF Truthy(last.token)
        THEN last.validated = 1
        ELSE last.validated = 0 /\ last.status = 401 /\ last.handler = "none"

\* the protected route has just refused, after one validateToken call, an
\* issued token whose expiry has passed
C24_Witness ==
    /\ last.op = "cases"
    /\ last.validated = 1
    /\ last.status = 401
    /\ last.token \in DOMAIN issued
    /\ now > issued[last.token]

\* C25: GET /api/cases never sends case data to a request without a valid
\* token: of the two routes registered for the path the database handler is
\* never reached, a request whose token does not validate is answered 401, and
\* the stub handler runs only for a token that is in the store and validates.
C25_CasesNeverUnauthenticated ==
    /\ \A h, b \in TokenInputs(DOMAIN issued) :
           LET token == RequestToken(h, b)
               valid == validateToken(activeTokens, token, now).ret
               r     == Dispatch(CasesRoutes, token, valid)
           IN  /\ r.handler # "cases-db"
               /\ ~valid => (r.status = 401 /\ r.handler = "none")
    /\ last.op = "cases" =>
           /\ last.handler # "cases-db"
           /\ last.handler = "none" => last.status = 401
           /\ last.handler = "cases" =>
                  /\ Truthy(last.token)
                  /\ last.token \in DOMAIN activeTokens
                  /\ ~Expired(now, activeTokens[last.token])

\* a request without any token was just answered 401 while the store holds a
\* session
C25_Witness ==
    /\ last.op = "cases"
    /\ ~Truthy(last.token)
    /\ last.status = 401
    /\ activeTokens # EmptyMap

\* C26: when the process receives SIGTERM, the handler closes the HTTP server
\* and the process exits with code 0; after that the cleanup timer never fires
\* again.
C26_GracefulShutdown ==
    process.state = "exited" =>
        /\ process.serverClosed
        /\ process.exitCode = 0
        /\ last.op # "sweep"

\* C27: invalidity is permanent: a token for which validateToken returns false
\* (revoked, lazily expired, swept, or never in the store) is not made valid
\* again by any verify-pin, validate, logout, sweep or clock step, verify-pin
\* never generating a value it has issued before.
\* (Stated step by step and by contraposition: a token that validates after a
\* step and was issued before the step validated before it as well.)
C27_InvalidForGood ==
    [][\A t \in (DOMAIN activeTokens') \cap (DOMAIN issued) :
           validateToken(activeTokens', t, now').ret
               => validateToken(activeTokens, t, now).ret]_vars

\* verify-pin has just issued a second token while the first one, issued
\* earlier, does not validate any more
C27_Witness ==
    /\ last.op = "verify-pin"
    /\ last.status = 200
    /\ \E t \in (DOMAIN issued) \ {last.rtoken} :
           ~validateToken(activeTokens, t, now).ret

\* C28: in the validate-token endpoint the lookup that follows a true
\* validateToken result finds the entry: the map it reads is the map
\* validateToken left, nothing runs in between, and the endpoint never answers
\* 500 in place of valid:true.
C28_LookupFindsEntry ==
    /\ \A tok \in TokenInputs(DOMAIN issued) :
           LET v == validateToken(activeTokens, tok, now)
           IN  v.ret => (/\ LookupStore(v.store, now) = v.store
                         /\ tok \in DOMAIN LookupStore(v.store, now))
    /\ last.op = "validate-token" =>
           /\ last.status # 500
           /\ last.valid => (/\ last.token \in DOMAIN activeTokens
                             /\ last.expiresAt = activeTokens[last.token].expiresAt)

\* validate-token has just answered valid:true at the last instant at which
\* the token validates, in the handler's last millisecond before the timer
\* would delete the entry
C28_Witness ==
    /\ last.op = "validate-token"
    /\ last.valid
    /\ last.remainingMs = 0

\* C29: whenever validate-token answers valid:true, the remainingMs it reports
\* is at least 0 and at most the token TTL, although the clock is read once
\* for the validity test and once more for remainingMs.
C29_RemainingMsInRange ==
    (last.op = "validate-token" /\ last.valid) =>
        (0 <= last.remainingMs /\ last.remainingMs <= TOKEN_EXPIRY_MS)

\* C30: in AgentManager every PropertyAgent whose interval timer is running is
\* an entry of activeAgents, after every sequence of deployAgent, stopAgent
\* and stopAllAgents calls, two deployAgent calls of one type at the same
\* Date.now() value included; hence no agent timer is left running when
\* stopAllAgents has returned.
C30_RunningAgentsAreRegistered ==
    /\ \A i \in DOMAIN agentObjs :
           agentObjs[i].intervalId =>
               /\ agentObjs[i].agentId \in DOMAIN activeAgents
               /\ activeAgents[agentObjs[i].agentId] = i
    /\ last.op = "stopAllAgents" =>
           \A i \in DOMAIN agentObjs : ~agentObjs[i].intervalId

====
